---- MODULE Spec2Model ----
(***************************************************************************)
(* Greedy daily PPFD allocation (the "Allocator") and the comparison of a  *)
(* candidate allocation with the ground truth (the "Scorer") of the LED    *)
(* scheduling evaluation pipeline.                                         *)
(*                                                                         *)
(* Numbers.  A PPFD value v is held as the integer v * 10^scale, where     *)
(* scale is the number of decimal digits of the day's data.  The source    *)
(* computes on binary floats (calculate_ppfd_allocation) or on Decimal     *)
(* (run_optimization); both are modelled as exact decimal arithmetic, and  *)
(* every comparison with a literal of the source (1e-9, 0.1, 1e-5) is      *)
(* carried out exactly on the scaled integers.                             *)
(***************************************************************************)
EXTENDS Integers, Sequences, FiniteSets, TLC

VARIABLES
    impl,          \* which allocator runs: "float" or "decimal"
    scale,         \* decimal digits of the day's PPFD values
    rows,          \* the day's rows, in file order: [hour, rank, cap]
    target,        \* target_ppfd_total_day / the day's requirement column
    pc,            \* position of the allocator: "start", "loop", "finish", "done"
    sorted_rows,   \* sorted_group / sorted_hours
    idx,           \* index of the next row of sorted_rows
    remaining,     \* remaining_needed / remaining_target
    allocated,     \* df['ppfd_allocated'] / allocated_ppfd, by hour
    cumulative,    \* current_cumulative_for_day (float loop)
    result,        \* what run_optimization returns, NoResult before
    gt,            \* Scorer: the ground-truth allocation of the scenario, by hour
    price,         \* Scorer: EUR/PPFD of the scenario's day, by hour
    cand,          \* Scorer: the candidate handed in for the scenario
    scorer,        \* Scorer: the scoring function that has run, "none" before
    metrics,       \* Scorer: the record that function produced
    scenarios,     \* Aggregation: the scenarios tested for one model, in order
    aggregator,    \* Aggregation: the script that has aggregated, "none" before
    summary        \* Aggregation: what that script computed

avars == <<impl, rows, target, pc, sorted_rows, idx, remaining,
           allocated, cumulative, result>>

svars == <<gt, price, cand, scorer, metrics>>

gvars == <<scenarios, aggregator, summary>>

vars == <<impl, scale, rows, target, pc, sorted_rows, idx, remaining,
          allocated, cumulative, result, gt, price, cand, scorer, metrics,
          scenarios, aggregator, summary>>

-----------------------------------------------------------------------------
(* Program constants *)

\* range(24): the hours of a day
HOURS == 24
\* fillna(99): the rank given to an hour whose rank is missing
DEFAULT_RANK == 99
\* a missing (NaN) cell of the input table
NaN == -1

Hours == 0 .. (HOURS - 1)

(* Bounds of the model *)

\* hours 0 .. NumActive-1 carry data chosen freely; the others are empty
NumActive == 2

\* fine-grained days: values in units of 1e-11, so that 1e-9 is 100 units
FineScales == {11}
FineRanks == {1, 2}
FineCaps == {0, 33, 254}
FineTargets == {0, 33, 133, 254, 287, 337, 387, 600}

-----------------------------------------------------------------------------
(* Arithmetic helpers *)

RECURSIVE Pow10(_)
Pow10(n) == IF n <= 0 THEN 1 ELSE 10 * Pow10(n - 1)

Abs(x) == IF x < 0 THEN -x ELSE x
Min(a, b) == IF a < b THEN a ELSE b

RECURSIVE SumOver(_, _)
SumOver(f, S) ==
    IF S = {} THEN 0
    ELSE LET h == CHOOSE x \in S : TRUE IN f[h] + SumOver(f, S \ {h})

\* the threshold written 1e-8 instead of 1e-9
LtEpsLoose(x, s) == x < (IF s >= 8 THEN Pow10(s - 8) ELSE 1)

\* x * 10^-s < 1e-9, for an integer x
LtEps(x, s) == x < (IF s >= 9 THEN Pow10(s - 9) ELSE 1)

\* pd.isna(capacity) -> 0.0
CapOf(row) == IF row.cap = NaN THEN 0 ELSE row.cap

\* f"{value:.10f}": the value rounded to 10 decimals (to nearest, ties to even),
\* given in the same units as x
FormatFloatPrecise(x, s) ==
    IF s <= 10 THEN x
    ELSE LET q == Pow10(s - 10)
             lo == (x \div q) * q
             r == x - lo
         IN  IF 2 * r < q THEN lo
             ELSE IF 2 * r > q THEN lo + q
             ELSE IF (lo \div q) % 2 = 0 THEN lo ELSE lo + q

-----------------------------------------------------------------------------
(* sort_values(by=['RANK eur/ppfd', 'hour']) *)

\* the rank column after pd.to_numeric(...).fillna(99).astype(int)
FillRank(r) == IF r = NaN THEN DEFAULT_RANK ELSE r

\* a sorts strictly before b.  run_optimization has replaced missing ranks by
\* 99 before it sorts; calculate_ppfd_allocation sorts the raw column, where
\* pandas puts NaN last.
RowBefore(a, b) ==
    IF a.rank = NaN /\ b.rank = NaN THEN a.hour < b.hour
    ELSE IF a.rank = NaN THEN FALSE
    ELSE IF b.rank = NaN THEN TRUE
    ELSE a.rank < b.rank \/ (a.rank = b.rank /\ a.hour < b.hour)

RECURSIVE Insert(_, _)
Insert(r, s) ==
    IF s = <<>> THEN <<r>>
    ELSE IF RowBefore(r, Head(s)) THEN <<r>> \o s
    ELSE <<Head(s)>> \o Insert(r, Tail(s))

RECURSIVE SortValues(_)
SortValues(rs) ==
    IF rs = <<>> THEN <<>>
    ELSE Insert(rs[Len(rs)], SortValues(SubSeq(rs, 1, Len(rs) - 1)))

-----------------------------------------------------------------------------
(* The days *)

NoResult == [kind |-> "none"]
Zeros == [h \in Hours |-> 0]

\* a candidate that could not be obtained (None)
Absent == [kind |-> "absent", entries |-> << >>]

\* the 24 rows of a day whose first hours carry rk/cp and whose other hours
\* carry the rank r0 and the capacity c0
MkRows(rk, cp, r0, c0) ==
    [i \in 1 .. HOURS |->
        [hour |-> i - 1,
         rank |-> IF (i - 1) \in DOMAIN rk THEN rk[i - 1] ELSE r0,
         cap  |-> IF (i - 1) \in DOMAIN cp THEN cp[i - 1] ELSE c0]]

Active == 0 .. (NumActive - 1)

\* days of fine-grained values; the hours without data are missing cells
FineDays ==
    { [scale |-> s, rows |-> MkRows(rk, cp, NaN, NaN), target |-> t] :
        s \in FineScales, rk \in [Active -> FineRanks],
        cp \in [Active -> FineCaps], t \in FineTargets }

\* the documented days: hour_0 rank 2 capacity 300, hour_1 rank 1 capacity
\* 400, every other hour rank 99 capacity 0; target 500, 1000 or 0
ExampleRanks == (0 :> 2) @@ (1 :> 1)
ExampleCaps == (0 :> 300) @@ (1 :> 400)
ExampleTargets == {0, 500, 1000}
ExampleDays ==
    { [scale |-> 0, rows |-> MkRows(ExampleRanks, ExampleCaps, DEFAULT_RANK, 0),
       target |-> t] : t \in ExampleTargets }

\* days on which some hours have no rank and others the rank 99 written out
MissingRanks == {1, NaN, DEFAULT_RANK}
MissingCaps == {0, 300}
MissingTargets == {200, 500}
MissingRankDays ==
    { [scale |-> 0, rows |-> MkRows(rk, cp, DEFAULT_RANK, 0), target |-> t] :
        rk \in [Active -> MissingRanks], cp \in [Active -> MissingCaps],
        t \in MissingTargets }

Days == FineDays \cup ExampleDays \cup MissingRankDays

-----------------------------------------------------------------------------
(* The allocator *)

Init ==
    /\ impl \in {"float", "decimal"}
    /\ \E d \in Days : scale = d.scale /\ rows = d.rows /\ target = d.target
    /\ pc = "start"
    /\ sorted_rows = <<>>
    /\ idx = 1
    /\ remaining = 0
    /\ allocated = Zeros
    /\ cumulative = 0
    /\ result = NoResult
    /\ gt = Zeros /\ price = Zeros /\ cand = Absent
    /\ scorer = "none" /\ metrics = NoResult
    /\ scenarios = << >> /\ aggregator = "none" /\ summary = NoResult

\* line 46: fillna(0).mean() of the day's requirement column
DailyTotalRequirement(t) == IF t = NaN THEN 0 ELSE t

\* calculate_ppfd_allocation, lines 46-52: the day's requirement, the sort
FloatSort ==
    /\ pc = "start" /\ impl = "float"
    /\ sorted_rows' = SortValues(rows)
    /\ remaining' = DailyTotalRequirement(target)
    /\ cumulative' = 0
    /\ idx' = 1
    /\ pc' = "loop"
    /\ UNCHANGED <<impl, scale, rows, target, allocated, result>>
    /\ UNCHANGED svars
    /\ UNCHANGED gvars

\* the capacity taken whatever is still needed
FloatAllocationNoMin(rem, cap) == IF rem > 0 THEN cap ELSE 0

\* the allocation of one row of calculate_ppfd_allocation, lines 60-66
FloatAllocation(rem, cap) ==
    IF rem > 0 THEN (IF rem > cap THEN cap ELSE rem) ELSE 0

\* the countdown cut to 0 below 1e-8
FloatRemainingLoose(rem, alloc, s) ==
    LET r == rem - alloc IN IF LtEpsLoose(r, s) THEN 0 ELSE r

\* the allocation not taken off the countdown
FloatRemainingUncounted(rem, alloc, s) ==
    IF LtEps(rem, s) THEN 0 ELSE rem

\* lines 69-72: the countdown, clamped to 0 below 1e-9
FloatRemaining(rem, alloc, s) ==
    LET r == rem - alloc IN IF LtEps(r, s) THEN 0 ELSE r

\* calculate_ppfd_allocation, lines 54-77: one row of the loop
FloatRow ==
    /\ pc = "loop" /\ impl = "float" /\ idx <= Len(sorted_rows)
    /\ LET row == sorted_rows[idx]
           alloc == FloatAllocation(remaining, CapOf(row))
       IN  /\ allocated' = [allocated EXCEPT ![row.hour] = alloc]
           /\ remaining' = FloatRemaining(remaining, alloc, scale)
           /\ cumulative' = cumulative + alloc
    /\ idx' = idx + 1
    /\ pc' = IF idx = Len(sorted_rows) THEN "done" ELSE "loop"
    /\ UNCHANGED <<impl, scale, rows, target, sorted_rows, result>>
    /\ UNCHANGED svars
    /\ UNCHANGED gvars

\* run_optimization, lines 31-39: the rank column is filled, then sorted
DecimalSort ==
    /\ pc = "start" /\ impl = "decimal"
    /\ rows' = [i \in DOMAIN rows |-> [rows[i] EXCEPT !.rank = FillRank(@)]]
    /\ sorted_rows' = SortValues(rows')
    /\ allocated' = Zeros
    /\ remaining' = target
    /\ idx' = 1
    /\ pc' = "loop"
    /\ UNCHANGED <<impl, scale, target, cumulative, result>>
    /\ UNCHANGED svars
    /\ UNCHANGED gvars

\* the capacity left out of the minimum
CanAllocateUncapped(rem, cap) == rem

\* line 54: can_allocate
CanAllocate(rem, cap) == Min(rem, cap)

\* run_optimization, lines 41-60: one row of the loop
DecimalRow ==
    /\ pc = "loop" /\ impl = "decimal" /\ idx <= Len(sorted_rows)
    /\ LET row == sorted_rows[idx]
           can == CanAllocate(remaining, CapOf(row))
       IN  IF remaining <= 0 \/ ~(can > 0)
           THEN UNCHANGED <<allocated, remaining>>
           ELSE /\ allocated' = [allocated EXCEPT ![row.hour] = @ + can]
                /\ remaining' = remaining - can
    /\ idx' = idx + 1
    /\ pc' = IF idx = Len(sorted_rows) THEN "finish" ELSE "loop"
    /\ UNCHANGED <<impl, scale, rows, target, sorted_rows, cumulative, result>>
    /\ UNCHANGED svars
    /\ UNCHANGED gvars

\* the cleaning threshold taken inclusive
DifferenceInclusive(t, total, s) ==
    LET d == t - total IN IF LtEps(Abs(d) - 1, s) THEN 0 ELSE d

\* lines 63-67: target minus total, with |difference| < 1e-9 cleaned to 0
Difference(t, total, s) ==
    LET d == t - total IN IF LtEps(Abs(d), s) THEN 0 ELSE d

\* run_optimization, lines 62-74: the totals and the returned tuple
DecimalFinish ==
    /\ pc = "finish" /\ impl = "decimal"
    /\ LET total == SumOver(allocated, Hours)
           difference == Difference(target, total, scale)
       IN  result' = [kind |-> "returned",
                      allocation |-> [h \in Hours |->
                                        FormatFloatPrecise(allocated[h], scale)],
                      total_allocated |-> total,
                      target_met |-> (difference = 0),
                      difference |-> difference]
    /\ pc' = "done"
    /\ UNCHANGED <<impl, scale, rows, target, sorted_rows, idx, remaining,
                   allocated, cumulative>>
    /\ UNCHANGED svars
    /\ UNCHANGED gvars

Next ==
    \/ FloatSort
    \/ FloatRow
    \/ DecimalSort
    \/ DecimalRow
    \/ DecimalFinish

Spec == Init /\ [][Next]_vars

-----------------------------------------------------------------------------
(* What the claims speak of *)

Done == pc = "done"

\* capacity by hour, a missing capacity counting as 0
Capacity == [h \in Hours |-> CapOf(rows[h + 1])]
TotalCapacity == SumOver(Capacity, Hours)
TotalAllocated == SumOver(allocated, Hours)
\* 1e-9 in the day's units (no integer lies strictly between 0 and 1e-9 on
\* a day of fewer than 9 decimals)
Eps == IF scale >= 9 THEN Pow10(scale - 9) ELSE 0
Returned == Done /\ impl = "decimal" /\ result.kind = "returned"

\* x is 1e-9 or more, for an integer x of the day's units
AtLeastEps(x) == IF scale >= 9 THEN x >= Pow10(scale - 9) ELSE x > 0

\* the rank an hour is ordered by, a missing rank counting as 99
RankOf(row) == FillRank(row.rank)
RankAt(h) == RankOf(rows[h + 1])

-----------------------------------------------------------------------------
(* C1 - C6: the allocator *)

C2_CapacityRespected ==
    \A h \in Hours :
        /\ 0 <= allocated[h]
        /\ allocated[h] <= Capacity[h] + Eps
        /\ (Capacity[h] = 0 => allocated[h] = 0)

\* a finished day with an unmet target, an hour of capacity 0 with data and
\* an hour filled to its positive capacity
C2_Witness ==
    /\ Done /\ TotalAllocated < target
    /\ \E h \in Active : Capacity[h] = 0 /\ allocated[h] = 0
    /\ \E h \in Active : Capacity[h] > 0 /\ allocated[h] = Capacity[h]

\* C3: the hours are processed in ascending (cost_rank, hour) order, and of
\* two hours of equal cost_rank the higher-indexed one has a nonzero
\* allocation only if the lower-indexed one is at its full capacity.
C3_RankThenHourOrder ==
    /\ pc # "start" =>
          \A i, j \in DOMAIN sorted_rows :
              i < j =>
                  \/ RankOf(sorted_rows[i]) < RankOf(sorted_rows[j])
                  \/ /\ RankOf(sorted_rows[i]) = RankOf(sorted_rows[j])
                     /\ sorted_rows[i].hour < sorted_rows[j].hour
    /\ \A a, b \in Hours :
          (a < b /\ RankAt(a) = RankAt(b) /\ allocated[b] # 0)
              => allocated[a] = Capacity[a]

\* the worked example: target 500, hour_0 rank 2 capacity 300, hour_1 rank 1
\* capacity 400, every other hour rank 99 capacity 0
IsExampleDay(t) ==
    /\ scale = 0 /\ target = t
    /\ \A h \in Hours :
          /\ RankAt(h) = (IF h \in DOMAIN ExampleRanks THEN ExampleRanks[h]
                          ELSE DEFAULT_RANK)
          /\ Capacity[h] = (IF h \in DOMAIN ExampleCaps THEN ExampleCaps[h]
                            ELSE 0)

\* the output the greedy algorithm has for the worked example
GreedyExampleOutput == [h \in Hours |-> IF h = 1 THEN 400 ELSE IF h = 0 THEN 100 ELSE 0]

\* the "Output:" line of the EXAMPLE of NEW_PROMPT_TEMPLATE_V3
TemplateExampleOutput == (0 :> 200) @@ (1 :> 300)

\* C4: on the worked example the allocator ends with hour_1 = 400, hour_0 =
\* 100, every other hour 0, total_allocated 500 and target_met true, and
\* this is the output the prompt template's worked example shows.
C4_WorkedExample ==
    (Done /\ IsExampleDay(500)) =>
        /\ allocated = GreedyExampleOutput
        /\ TotalAllocated = 500
        /\ (impl = "decimal" => result.target_met /\ result.total_allocated = 500)
        /\ \A h \in DOMAIN TemplateExampleOutput :
              TemplateExampleOutput[h] = allocated[h]

\* the part of C4 about the algorithm alone
C4_GreedyOutput ==
    (Done /\ IsExampleDay(500)) =>
        /\ allocated = GreedyExampleOutput
        /\ TotalAllocated = 500
        /\ (impl = "decimal" => result.target_met /\ result.total_allocated = 500)

\* C5 as stated: when daily_target > sum of the capacities, every hour ends
\* at exactly its full capacity, total_allocated is the sum of the
\* capacities and target_met is false.
C5_SaturationAsStated ==
    (Done /\ target > TotalCapacity) =>
        /\ \A h \in Hours : allocated[h] = Capacity[h]
        /\ TotalAllocated = TotalCapacity
        /\ (impl = "decimal" => ~result.target_met)

\* C5, amended: when daily_target > sum of the capacities, run_optimization
\* fills every hour to its full capacity, returns total_allocated = sum of
\* the capacities, and returns target_met = false exactly when the target
\* exceeds that sum by 1e-9 or more; calculate_ppfd_allocation fills every
\* hour to its full capacity when the target exceeds the sum by 1e-9 or more.
C5_Saturation ==
    (Done /\ target > TotalCapacity) =>
        /\ impl = "decimal" =>
              /\ \A h \in Hours : allocated[h] = Capacity[h]
              /\ result.total_allocated = TotalCapacity
              /\ (~result.target_met <=> AtLeastEps(target - TotalCapacity))
        /\ (impl = "float" /\ AtLeastEps(target - TotalCapacity)) =>
              /\ \A h \in Hours : allocated[h] = Capacity[h]
              /\ TotalAllocated = TotalCapacity

\* run_optimization has finished the saturation example (target 1000, total
\* capacity 700) with every hour full and target_met false
C5_Witness ==
    /\ Returned /\ IsExampleDay(1000)
    /\ \A h \in Hours : allocated[h] = Capacity[h]
    /\ result.total_allocated = 700
    /\ ~result.target_met

-----------------------------------------------------------------------------
(* The Scorer: one scenario, scored by each of the repository's scoring     *)
(* functions.  Values are in units of 10^-scale PPFD (scale = 2: 0.01).     *)

\* hours 0 .. NumEdited-1 of a candidate may differ from the ground truth
NumEdited == 2
EditHours == 0 .. (NumEdited - 1)
ScorerScales == {2}
Deltas == {-10, -9, 0, 1, 9, 10, 11}

\* the values a JSON mapping can hold for an hour
Num(v) == [t |-> "num", v |-> v]
Null == [t |-> "null", v |-> 0]
Str == [t |-> "str", v |-> 0]

\* results: a rational n/d, float('inf'), NaN, or a field the record lacks
Rat(n, d) == [t |-> "num", n |-> n, d |-> d]
Inf == [t |-> "inf", n |-> 0, d |-> 1]
NaNValue == [t |-> "nan", n |-> 0, d |-> 1]
NoField == [t |-> "none", n |-> 0, d |-> 1]
RatEq(a, b) == a.t = "num" /\ b.t = "num" /\ a.n * b.d = b.n * a.d

Edits ==
    {[op |-> "add", d |-> k] : k \in Deltas}
        \cup {[op |-> "drop", d |-> 0], [op |-> "null", d |-> 0],
              [op |-> "str", d |-> 0]}

\* the mapping g with the hours of e edited
MkCand(g, e) ==
    [kind |-> "map",
     entries |->
        [h \in {x \in Hours : x \notin DOMAIN e \/ e[x].op # "drop"} |->
            IF h \notin DOMAIN e THEN Num(g[h])
            ELSE IF e[h].op = "add" THEN Num(g[h] + e[h].d)
            ELSE IF e[h].op = "null" THEN Null
            ELSE Str]]

Candidates(g) == {Absent} \cup {MkCand(g, e) : e \in [EditHours -> Edits]}

GroundTruths ==
    { [h \in Hours |-> 100 * GreedyExampleOutput[h]],
      Zeros,
      [h \in Hours |-> IF h = 0 THEN 100000 ELSE IF h = 1 THEN 25000 ELSE 0] }

PriceVectors == { [h \in Hours |-> 1 + (h % 3)] }

\* the candidate is a mapping with a numeric value for each of the 24 hours
WellFormed(c) ==
    /\ c.kind = "map"
    /\ DOMAIN c.entries = Hours
    /\ \A h \in Hours : c.entries[h].t = "num"

SumAbsErr(a, b) == SumOver([h \in Hours |-> Abs(a[h] - b[h])], Hours)

\* the comparison written > instead of <
LtTenthFlipped(x, s) == x > Pow10(s - 1)

\* x * 10^-s < 0.1
LtTenth(x, s) == x < Pow10(s - 1)

\* np.isclose(a, b): |a - b| <= 1e-8 + 1e-5 * |b|
IsClose(a, b, s) ==
    Abs(a - b) <= ((IF s >= 3 THEN Pow10(s - 3) ELSE 0) + Abs(b)) \div 100000

\* np.allclose(.., atol=0.1), one element: |a - b| <= 0.1 + 1e-5 * |b|
AllCloseTenth(a, b, s) == Abs(a - b) <= Pow10(s - 1) + (Abs(b) \div 100000)

(* scripts/analysis/analyze_performance.py *)

\* extract_led_allocations: None, a list of 24 floats, or float() raises
ExtractLedAllocations(c) ==
    IF c.kind = "absent" THEN [kind |-> "none", vals |-> Zeros]
    ELSE IF \E h \in DOMAIN c.entries : c.entries[h].t # "num"
         THEN [kind |-> "raised", vals |-> Zeros]
    ELSE [kind |-> "list",
          vals |-> [h \in Hours |-> IF h \in DOMAIN c.entries
                                    THEN c.entries[h].v ELSE 0]]

\* the daily error without its absolute value
CalculatePpfdMetricsSigned(pred, target_ppfd) ==
    IF pred.kind # "list"
    THEN [daily_total_ppfd |-> Rat(0, 1), daily_ppfd_error |-> Inf]
    ELSE LET daily_total == SumOver(pred.vals, Hours)
         IN  [daily_total_ppfd |-> Rat(daily_total, 1),
              daily_ppfd_error |-> Rat(daily_total - target_ppfd, 1)]

\* calculate_ppfd_metrics
CalculatePpfdMetrics(pred, target_ppfd) ==
    IF pred.kind # "list"
    THEN [daily_total_ppfd |-> Rat(0, 1), daily_ppfd_error |-> Inf]
    ELSE LET daily_total == SumOver(pred.vals, Hours)
         IN  [daily_total_ppfd |-> Rat(daily_total, 1),
              daily_ppfd_error |-> Rat(Abs(daily_total - target_ppfd), 1)]

\* the difference taken as optimal minus predicted
CalculateCostMetricsSwapped(pred, g, pr) ==
    IF pred.kind # "list"
    THEN [predicted_cost |-> Inf, optimal_cost |-> Rat(0, 1),
          cost_difference |-> Inf, cost_difference_percent |-> Inf]
    ELSE LET predicted_cost == SumOver([h \in Hours |-> pred.vals[h] * pr[h]], Hours)
             optimal_cost == SumOver([h \in Hours |-> g[h] * pr[h]], Hours)
             cost_diff == optimal_cost - predicted_cost
         IN  [predicted_cost |-> Rat(predicted_cost, 1),
              optimal_cost |-> Rat(optimal_cost, 1),
              cost_difference |-> Rat(cost_diff, 1),
              cost_difference_percent |->
                  IF optimal_cost # 0 THEN Rat(cost_diff * 100, optimal_cost)
                  ELSE Inf]

\* calculate_cost_metrics
CalculateCostMetrics(pred, g, pr) ==
    IF pred.kind # "list"
    THEN [predicted_cost |-> Inf, optimal_cost |-> Rat(0, 1),
          cost_difference |-> Inf, cost_difference_percent |-> Inf]
    ELSE LET predicted_cost == SumOver([h \in Hours |-> pred.vals[h] * pr[h]], Hours)
             optimal_cost == SumOver([h \in Hours |-> g[h] * pr[h]], Hours)
             cost_diff == predicted_cost - optimal_cost
         IN  [predicted_cost |-> Rat(predicted_cost, 1),
              optimal_cost |-> Rat(optimal_cost, 1),
              cost_difference |-> Rat(cost_diff, 1),
              cost_difference_percent |->
                  IF optimal_cost # 0 THEN Rat(cost_diff * 100, optimal_cost)
                  ELSE Inf]

\* calculate_accuracy_metrics (hourly_rmse, a square root, is left out)
CalculateAccuracyMetrics(pred, optimal, s) ==
    IF pred.kind # "list"
    THEN [hourly_mae |-> Inf, exact_hourly_matches |-> 0,
          exact_match_rate |-> Rat(0, 1)]
    ELSE LET exact_matches ==
                 Cardinality({h \in Hours :
                                LtTenth(Abs(pred.vals[h] - optimal[h]), s)})
         IN  [hourly_mae |-> Rat(SumAbsErr(pred.vals, optimal), HOURS),
              exact_hourly_matches |-> exact_matches,
              exact_match_rate |-> Rat(exact_matches * 100, HOURS)]

\* analyze_single_result
AnalyzeSingleResult(c, g, pr, s) ==
    LET model_allocations == ExtractLedAllocations(c)
        target_ppfd == SumOver(g, Hours)
    IN  IF model_allocations.kind = "raised" THEN [kind |-> "raised"]
        ELSE [kind |-> "record",
              json_success |-> (model_allocations.kind = "list")]
             @@ CalculatePpfdMetrics(model_allocations, target_ppfd)
             @@ CalculateCostMetrics(model_allocations, g, pr)
             @@ CalculateAccuracyMetrics(model_allocations, g, s)

(* analysis_scripts/model_analyzer.py *)

\* the penalty 10000.0
PENALTY == 10000

\* failure_comp of process_ground_truth_comparison
FailureComp(s) ==
    [kind |-> "record", exact_24h_match |-> FALSE, hourly_matches |-> 0,
     hourly_match_rate |-> Rat(0, 1),
     mean_absolute_error |-> Rat(PENALTY * Pow10(s), 1),
     daily_absolute_error |-> Rat(PENALTY * Pow10(s), 1),
     daily_relative_error |-> Inf,
     total_model_ppfd |-> Rat(0, 1)]

\* data_loader.calculate_ground_truth_metrics: the comparison of a complete
\* numeric candidate, as section 4.2 of the specification describes it
CalculateGroundTruthMetrics(c, g, s) ==
    IF ~WellFormed(c) THEN FailureComp(s)
    ELSE LET v == [h \in Hours |-> c.entries[h].v]
             matches == Cardinality({h \in Hours : LtTenth(Abs(v[h] - g[h]), s)})
         IN  [kind |-> "record", exact_24h_match |-> (matches = HOURS),
              hourly_matches |-> matches,
              hourly_match_rate |-> Rat(matches * 100, HOURS),
              mean_absolute_error |-> Rat(SumAbsErr(v, g), HOURS),
              daily_absolute_error |->
                  Rat(Abs(SumOver(v, Hours) - SumOver(g, Hours)), 1),
              daily_relative_error |-> NoField,
              total_model_ppfd |-> Rat(SumOver(v, Hours), 1)]

\* process_ground_truth_comparison, lines 185-205: one scenario
ProcessScenario(c, g, s) ==
    IF c.kind = "map" /\ Cardinality(DOMAIN c.entries) = HOURS
    THEN CalculateGroundTruthMetrics(c, g, s)
    ELSE FailureComp(s)

(* scripts/analysis/comprehensive_final_analysis.py *)

\* calculate_optimization_accuracy
CalculateOptimizationAccuracy(c, g, s) ==
    IF c.kind = "absent" \/ DOMAIN c.entries = {}
    THEN [kind |-> "record", ppfd_mae |-> Inf,
          cost_optimization_score |-> Rat(0, 1), perfect_match |-> FALSE,
          total_ppfd_error |-> Inf]
    ELSE IF \E h \in DOMAIN c.entries : c.entries[h].t = "str"
         THEN [kind |-> "raised"]
    ELSE LET model_values ==
                 [h \in Hours |->
                     IF h \in DOMAIN c.entries /\ c.entries[h].t = "num"
                     THEN c.entries[h].v ELSE 0]
             total_ppfd_error == SumAbsErr(model_values, g)
             perfect_match ==
                 \A h \in Hours : AllCloseTenth(model_values[h], g[h], s)
             max_possible_error == SumOver(g, Hours)
         IN  [kind |-> "record",
              ppfd_mae |-> Rat(total_ppfd_error, HOURS),
              cost_optimization_score |->
                  IF max_possible_error > 0
                  THEN (IF total_ppfd_error >= max_possible_error THEN Rat(0, 1)
                        ELSE Rat(100 * (max_possible_error - total_ppfd_error),
                                 max_possible_error))
                  ELSE (IF perfect_match THEN Rat(100, 1) ELSE Rat(0, 1)),
              perfect_match |-> perfect_match,
              total_ppfd_error |-> Rat(total_ppfd_error, 1)]

(* scripts/analysis/analyze_model_performance.py *)

\* main, lines 97-116: the model's value for an hour, NaN when the hour is
\* missing, null or not convertible
ModelValueValid(c, h) ==
    /\ c.kind = "map"
    /\ h \in DOMAIN c.entries
    /\ c.entries[h].t = "num"

\* main, lines 286-313: the day's sums over the hours valid on both sides,
\* their difference and its absolute value; a day without a valid hour has
\* no row in daily_sums
DailySums(c, g) ==
    LET valid == {h \in Hours : ModelValueValid(c, h)}
        model_sum == SumOver([h \in Hours |->
                                IF h \in valid THEN c.entries[h].v ELSE 0], Hours)
        gt_sum == SumOver([h \in Hours |-> IF h \in valid THEN g[h] ELSE 0],
                          Hours)
    IN  [in_daily_sums |-> (valid # {}),
         valid_hours_count |-> Cardinality(valid),
         daily_model_ppfd_sum |-> model_sum,
         daily_ground_truth_ppfd_sum |-> gt_sum,
         ppfd_sum_difference |-> model_sum - gt_sum,
         daily_error |-> IF valid = {} THEN NoField
                         ELSE Rat(Abs(model_sum - gt_sum), 1)]

\* the daily flag taken with any() instead of all()
CompareDayAnyHour(c, g, s) ==
    LET valid == {h \in Hours : ModelValueValid(c, h)}
        exact == {h \in valid : IsClose(c.entries[h].v, g[h], s)}
    IN  [kind |-> "record",
         num_exact_hourly_matches |-> Cardinality(exact),
         exact_daily_match |-> (exact # {}),
         mae |-> IF valid = {} THEN NaNValue
                 ELSE Rat(SumOver([h \in Hours |->
                                     IF h \in valid
                                     THEN Abs(c.entries[h].v - g[h]) ELSE 0],
                                  Hours),
                          Cardinality(valid))]
        @@ DailySums(c, g)

\* main, lines 240-284, for the 24 rows of one day
CompareDay(c, g, s) ==
    LET valid == {h \in Hours : ModelValueValid(c, h)}
        exact == {h \in valid : IsClose(c.entries[h].v, g[h], s)}
    IN  [kind |-> "record",
         num_exact_hourly_matches |-> Cardinality(exact),
         exact_daily_match |-> (exact = Hours),
         mae |-> IF valid = {} THEN NaNValue
                 ELSE Rat(SumOver([h \in Hours |->
                                     IF h \in valid
                                     THEN Abs(c.entries[h].v - g[h]) ELSE 0],
                                  Hours),
                          Cardinality(valid))]
        @@ DailySums(c, g)

(* The scenarios *)

SInit ==
    /\ impl = "none" /\ rows = << >> /\ target = 0 /\ pc = "idle"
    /\ sorted_rows = << >> /\ idx = 1 /\ remaining = 0 /\ allocated = Zeros
    /\ cumulative = 0 /\ result = NoResult
    /\ scale \in ScorerScales
    /\ gt \in GroundTruths
    /\ price \in PriceVectors
    /\ cand \in Candidates(gt)
    /\ scorer = "none"
    /\ metrics = NoResult
    /\ scenarios = << >> /\ aggregator = "none" /\ summary = NoResult

ScoreAnalyzePerformance ==
    /\ scorer = "none"
    /\ scorer' = "analyze_performance"
    /\ metrics' = AnalyzeSingleResult(cand, gt, price, scale)
    /\ UNCHANGED <<avars, scale, gt, price, cand>>
    /\ UNCHANGED gvars

ScoreModelAnalyzer ==
    /\ scorer = "none"
    /\ scorer' = "model_analyzer"
    /\ metrics' = ProcessScenario(cand, gt, scale)
    /\ UNCHANGED <<avars, scale, gt, price, cand>>
    /\ UNCHANGED gvars

ScoreComprehensive ==
    /\ scorer = "none"
    /\ scorer' = "comprehensive_final_analysis"
    /\ metrics' = CalculateOptimizationAccuracy(cand, gt, scale)
    /\ UNCHANGED <<avars, scale, gt, price, cand>>
    /\ UNCHANGED gvars

ScoreAnalyzeModelPerformance ==
    /\ scorer = "none"
    /\ scorer' = "analyze_model_performance"
    /\ metrics' = CompareDay(cand, gt, scale)
    /\ UNCHANGED <<avars, scale, gt, price, cand>>
    /\ UNCHANGED gvars

SNext ==
    \/ ScoreAnalyzePerformance
    \/ ScoreModelAnalyzer
    \/ ScoreComprehensive
    \/ ScoreAnalyzeModelPerformance

SpecScorer == SInit /\ [][SNext]_vars

-----------------------------------------------------------------------------
(* C7 - C10: the per-scenario record *)

Scored == scorer # "none" /\ metrics.kind = "record"

\* the record's mean absolute error, whatever the scoring function calls it
Mae ==
    IF scorer = "analyze_performance" THEN metrics.hourly_mae
    ELSE IF scorer = "model_analyzer" THEN metrics.mean_absolute_error
    ELSE IF scorer = "comprehensive_final_analysis" THEN metrics.ppfd_mae
    ELSE metrics.mae

HasHourlyMatches == scorer # "comprehensive_final_analysis"

HourlyMatches ==
    IF scorer = "analyze_performance" THEN metrics.exact_hourly_matches
    ELSE IF scorer = "model_analyzer" THEN metrics.hourly_matches
    ELSE metrics.num_exact_hourly_matches

\* the record's 24-hour exact-match flag (for analyze_performance: an exact
\* match rate of 100)
Exact24h ==
    IF scorer = "analyze_performance" THEN RatEq(metrics.exact_match_rate, Rat(100, 1))
    ELSE IF scorer = "model_analyzer" THEN metrics.exact_24h_match
    ELSE IF scorer = "comprehensive_final_analysis" THEN metrics.perfect_match
    ELSE metrics.exact_daily_match

CostDifference ==
    IF scorer = "analyze_performance" THEN metrics.cost_difference ELSE NoField

PenaltyMae == Rat(PENALTY * Pow10(scale), 1)

CandValue(h) == cand.entries[h].v

\* C7: whenever the candidate is absent or malformed, the record has mean
\* absolute error 1e4, hourly match count 0, no 24-hour exact match, and a
\* cost difference that is not a number (never 0).
C7_HardFailureRecord ==
    (Scored /\ ~WellFormed(cand)) =>
        /\ RatEq(Mae, PenaltyMae)
        /\ (HasHourlyMatches => HourlyMatches = 0)
        /\ ~Exact24h
        /\ CostDifference.t # "num"

\* C8: a candidate mapping without a numeric value for each of the 24 hours
\* is always scored as a hard failure (a record with the penalty or an
\* infinite error, no match), never completed with a default and scored.
C8_IncompleteIsHardFailure ==
    (scorer # "none" /\ cand.kind = "map" /\ ~WellFormed(cand)) =>
        /\ metrics.kind = "record"
        /\ (Mae.t = "inf" \/ RatEq(Mae, PenaltyMae))
        /\ (HasHourlyMatches => HourlyMatches = 0)
        /\ ~Exact24h

\* C9: for a well-formed candidate, in every scoring function, an hour is an
\* exact match iff |candidate[h] - ground_truth[h]| < 0.1, whatever the
\* magnitude of the values.
C9_TenthTolerance ==
    (Scored /\ WellFormed(cand)) =>
        LET close == {h \in Hours : Abs(CandValue(h) - gt[h]) < Pow10(scale - 1)}
        IN  /\ HasHourlyMatches => HourlyMatches = Cardinality(close)
            /\ Exact24h <=> (close = Hours)

\* C10: a well-formed allocation scored against itself has 24 hourly
\* matches, the 24-hour exact match and a mean absolute error of 0.
C10_SelfComparison ==
    (Scored /\ WellFormed(cand) /\ \A h \in Hours : CandValue(h) = gt[h]) =>
        /\ HasHourlyMatches => HourlyMatches = HOURS
        /\ Exact24h
        /\ RatEq(Mae, Rat(0, 1))

\* analyze_performance has scored a nonzero allocation against itself
C10_Witness ==
    /\ Scored /\ scorer = "analyze_performance" /\ WellFormed(cand)
    /\ \A h \in Hours : CandValue(h) = gt[h]
    /\ \E h \in Hours : gt[h] > 0
    /\ metrics.exact_hourly_matches = HOURS

-----------------------------------------------------------------------------
(* C11: the hourly count and the 24-hour flag of one record *)

\* the per-hour match test of the scoring function that produced the record
MatchTest(a, b) ==
    IF scorer = "comprehensive_final_analysis" THEN AllCloseTenth(a, b, scale)
    ELSE IF scorer = "analyze_model_performance" THEN IsClose(a, b, scale)
    ELSE LtTenth(Abs(a - b), scale)

\* C11: for a well-formed candidate, the record's hourly match count is the
\* number of hours (0 to 24) that pass the scoring function's per-hour match
\* test, and its 24-hour flag is true iff all 24 hours pass that same test.
C11_CountAndFlagAgree ==
    (Scored /\ WellFormed(cand)) =>
        LET matching == {h \in Hours : MatchTest(CandValue(h), gt[h])}
        IN  /\ HasHourlyMatches =>
                  /\ HourlyMatches = Cardinality(matching)
                  /\ HourlyMatches \in 0 .. HOURS
                  /\ Exact24h <=> (HourlyMatches = HOURS)
            /\ Exact24h <=> (matching = Hours)

\* analyze_model_performance has scored a well-formed candidate of which
\* some but not all hours match
C11_Witness ==
    /\ Scored /\ scorer = "analyze_model_performance" /\ WellFormed(cand)
    /\ metrics.num_exact_hourly_matches = HOURS - 1
    /\ ~metrics.exact_daily_match

-----------------------------------------------------------------------------
(* The aggregation layer: the scenarios tested for one model, summarised by *)
(* each of the repository's aggregating functions.                          *)

\* at most MaxScenarios scenarios are tested
MaxScenarios == 2

ScenarioGroundTruths ==
    { [h \in Hours |-> 100 * GreedyExampleOutput[h]],
      Zeros,
      [h \in Hours |-> IF h = 0 THEN 100000 ELSE IF h = 1 THEN 25000 ELSE 0] }

\* the candidates of a scenario with ground truth g: none, g itself, g with
\* hour 0 off by 0.11, g without hour 0, g with hour 0 off by 10000
ScenarioCands(g) ==
    { Absent,
      MkCand(g, << >>),
      MkCand(g, (0 :> [op |-> "add", d |-> 11])),
      MkCand(g, (0 :> [op |-> "drop", d |-> 0])),
      MkCand(g, (0 :> [op |-> "add", d |-> 1000000])) }

ScenarioSet ==
    UNION { { [gt |-> g, cand |-> c] : c \in ScenarioCands(g) } :
            g \in ScenarioGroundTruths }

Max(a, b) == IF a > b THEN a ELSE b

\* np.mean of the values f[i] / d, i in S (S not empty)
MeanOver(f, S, d) == Rat(SumOver(f, S), d * Cardinality(S))

(* analysis_scripts/model_analyzer.py *)

\* analyze_single_model, lines 106-120: the item has a response that carries
\* an allocation
HasAllocation(sc) == sc.cand.kind = "map"

\* analyze_single_model: hourly_allocations, one entry per item that has an
\* allocation, in order
HourlyAllocations(scs) == SelectSeq(scs, HasAllocation)

\* the error of a comparison is below the penalty value 10000.0
BelowPenalty(comp, s) ==
    LET e == comp.daily_absolute_error
    IN  e.t = "num" /\ e.n < PENALTY * Pow10(s) * e.d

\* analyze_single_model followed by process_ground_truth_comparison on the
\* hourly_allocations it collected
ProcessGroundTruthComparison(scs, s) ==
    LET total_responses == Len(scs)
        hourly_allocations_list == HourlyAllocations(scs)
        api_success_count == Len(hourly_allocations_list)
        idxs == 1 .. total_responses
        comps == [i \in idxs |->
                    IF i <= Len(hourly_allocations_list)
                    THEN ProcessScenario(hourly_allocations_list[i].cand,
                                         scs[i].gt, s)
                    ELSE FailureComp(s)]
        all_maes == [i \in idxs |-> comps[i].daily_absolute_error.n]
        exact_matches == Cardinality({i \in idxs : comps[i].exact_24h_match})
        total_hourly_matches ==
            SumOver([i \in idxs |-> comps[i].hourly_matches], idxs)
        successful == {i \in idxs : BelowPenalty(comps[i], s)}
        basic ==
            [kind |-> "record",
             total_scenarios_tested |-> total_responses,
             api_success_rate |->
                 IF total_responses > 0
                 THEN Rat(api_success_count * 100, total_responses)
                 ELSE Rat(0, 1),
             json_success_rate |->
                 IF total_responses > 0
                 THEN Rat(api_success_count * 100, total_responses)
                 ELSE Rat(0, 1)]
    IN  IF idxs = {}
        THEN basic @@ [ground_truth_analysis |-> FALSE]
        ELSE basic @@
             [ground_truth_analysis |-> TRUE,
              scenarios_with_valid_responses |-> Cardinality(successful),
              exact_24h_matches |-> exact_matches,
              exact_24h_match_rate |-> Rat(exact_matches * 100, total_responses),
              total_hourly_matches |-> total_hourly_matches,
              mean_hourly_match_rate |->
                  Rat(total_hourly_matches * 100, total_responses * HOURS),
              mean_daily_mae |->
                  IF successful = {} THEN Inf
                  ELSE MeanOver(all_maes, successful, 1),
              mean_success_weighted_mae |-> MeanOver(all_maes, idxs, 1),
              ground_truth_comparisons |-> comps]

(* scripts/analysis/analyze_performance.py *)

\* _calculate_aggregate_metrics
CalculateAggregateMetrics(analyses) ==
    LET idxs == DOMAIN analyses
        successful_analyses == {i \in idxs : analyses[i].json_success}
    IN  IF successful_analyses = {} THEN [kind |-> "error"]
        ELSE [kind |-> "record",
              total_items |-> Cardinality(idxs),
              successful_items |-> Cardinality(successful_analyses),
              json_success_rate |->
                  Rat(Cardinality(successful_analyses) * 100, Cardinality(idxs)),
              hourly_allocation_mae |->
                  MeanOver([i \in idxs |-> analyses[i].hourly_mae.n],
                           successful_analyses, HOURS),
              exact_hourly_match_rate |->
                  MeanOver([i \in idxs |-> analyses[i].exact_match_rate.n],
                           successful_analyses, HOURS),
              detailed_results |-> analyses]

\* run_complete_analysis: every result analysed, then aggregated
RunCompleteAnalysis(scs, pr, s) ==
    LET analyses == [i \in 1 .. Len(scs) |->
                        AnalyzeSingleResult(scs[i].cand, scs[i].gt, pr, s)]
    IN  IF \E i \in 1 .. Len(scs) : analyses[i].kind = "raised"
        THEN [kind |-> "raised"]
        ELSE CalculateAggregateMetrics(analyses)

(* scripts/analysis/comprehensive_final_analysis.py *)

\* analyze_model_performance
AnalyzeModelPerformance(scs, s) ==
    LET total_scenarios == Len(scs)
        successful_scenarios == {i \in 1 .. Len(scs) : scs[i].cand.kind = "map"}
        scored == {i \in successful_scenarios : DOMAIN scs[i].cand.entries # {}}
        acc == [i \in scored |->
                   CalculateOptimizationAccuracy(scs[i].cand, scs[i].gt, s)]
    IN  IF total_scenarios = 0 THEN [kind |-> "raised"]
        ELSE IF successful_scenarios = {}
        THEN [kind |-> "record",
              api_success_rate |-> Rat(0, total_scenarios),
              hourly_success_rate |-> Rat(0, 1),
              ppfd_mae |-> Inf,
              total_scenarios |-> total_scenarios,
              successful_scenarios |-> 0,
              perfect_matches |-> 0]
        ELSE IF \E i \in scored : acc[i].kind = "raised" THEN [kind |-> "raised"]
        ELSE [kind |-> "record",
              api_success_rate |->
                  Rat(Cardinality(successful_scenarios) * 100, total_scenarios),
              hourly_success_rate |->
                  Rat(Cardinality(scored) * 100, Cardinality(successful_scenarios)),
              ppfd_mae |->
                  IF scored = {} THEN Inf
                  ELSE MeanOver([i \in scored |-> acc[i].ppfd_mae.n], scored, HOURS),
              total_scenarios |-> total_scenarios,
              successful_scenarios |-> Cardinality(successful_scenarios),
              perfect_matches |->
                  Cardinality({i \in scored : acc[i].perfect_match})]

\* create_comprehensive_visualization, line 293: perfect_rates
PerfectRate(m) ==
    Rat(m.perfect_matches * 100, Max(m.successful_scenarios, 1))

(* scripts/analysis/final_analysis_clean.py *)

\* allocation.get(f'hour_{i}', 0.0)
ValuesOrZero(c) ==
    [h \in Hours |-> IF h \in DOMAIN c.entries THEN c.entries[h].v ELSE 0]

\* analyze_model_performance
CleanAnalyzeModelPerformance(scs, s) ==
    LET total_scenarios == Len(scs)
        successful_scenarios == {i \in 1 .. Len(scs) : scs[i].cand.kind = "map"}
        scored == {i \in successful_scenarios : DOMAIN scs[i].cand.entries # {}}
        total_hours == Cardinality(successful_scenarios)
        perfect == {i \in scored :
                      \A h \in Hours :
                          AllCloseTenth(ValuesOrZero(scs[i].cand)[h], scs[i].gt[h], s)}
    IN  IF total_scenarios = 0 THEN [kind |-> "raised"]
        ELSE IF successful_scenarios = {}
        THEN [kind |-> "record",
              api_success_rate |-> Rat(0, total_scenarios),
              hourly_success_rate |-> Rat(0, 1),
              ppfd_mae |-> Inf,
              cost_optimization |-> Rat(0, 1),
              total_scenarios |-> total_scenarios,
              successful_scenarios |-> 0]
        ELSE [kind |-> "record",
              api_success_rate |->
                  Rat(Cardinality(successful_scenarios) * 100, total_scenarios),
              hourly_success_rate |->
                  IF total_hours > 0
                  THEN Rat(Cardinality(scored) * 100, total_hours)
                  ELSE Rat(0, 1),
              ppfd_mae |->
                  IF scored = {} THEN Inf
                  ELSE MeanOver([i \in scored |->
                                    SumAbsErr(ValuesOrZero(scs[i].cand), scs[i].gt)],
                                scored, HOURS),
              cost_optimization |->
                  IF scored = {} THEN Rat(0, 1)
                  ELSE Rat(Cardinality(perfect) * 100, Cardinality(scored)),
              total_scenarios |-> total_scenarios,
              successful_scenarios |-> Cardinality(successful_scenarios)]

(* scripts/analysis/analyze_model_performance.py *)

\* cost_difference_percentage, lines 389-395
CostDifferencePercentage(total_cost_model, total_cost_ground_truth) ==
    IF total_cost_ground_truth # 0
    THEN Rat((total_cost_model - total_cost_ground_truth) * 100,
             total_cost_ground_truth)
    ELSE IF total_cost_model # 0 THEN Inf
    ELSE Rat(0, 1)

\* the cost of the hours of S: EUR/PPFD times the PPFD allocated
CostOver(v, pr, S) == SumOver([h \in Hours |-> pr[h] * v[h]], S)

\* the model's values of a day, fillna(0)
ModelValuesFilled(c) ==
    [h \in Hours |-> IF ModelValueValid(c, h) THEN c.entries[h].v ELSE 0]

\* main: the rows of all items compared at once (every item of another
\* date, each with its 24 ground-truth rows)
CompareAll(scs, pr, s) ==
    LET idxs == 1 .. Len(scs)
        days == [i \in idxs |-> CompareDay(scs[i].cand, scs[i].gt, s)]
        num_exact_hourly_matches ==
            SumOver([i \in idxs |-> days[i].num_exact_hourly_matches], idxs)
        total_hourly_comparisons == Len(scs) * HOURS
        num_exact_daily_matches ==
            Cardinality({i \in idxs : days[i].exact_daily_match})
        valid == [i \in idxs |->
                    {h \in Hours : ModelValueValid(scs[i].cand, h)}]
        both_valid == SumOver([i \in idxs |-> Cardinality(valid[i])], idxs)
        total_cost_ground_truth ==
            SumOver([i \in idxs |-> CostOver(scs[i].gt, pr, Hours)], idxs)
        total_cost_model ==
            SumOver([i \in idxs |->
                       CostOver(ModelValuesFilled(scs[i].cand), pr, Hours)], idxs)
        relevant_daily_sums == {i \in idxs : days[i].in_daily_sums}
        difference == [i \in idxs |-> days[i].ppfd_sum_difference]
        tolerance == Pow10(s)
    IN  IF idxs = {} THEN [kind |-> "raised"]
        ELSE [kind |-> "record",
              days_in_daily_sums |-> Cardinality(relevant_daily_sums),
              days_model_under_allocated |->
                  IF relevant_daily_sums = {} THEN NoField
                  ELSE Rat(Cardinality({i \in relevant_daily_sums :
                                          difference[i] < -tolerance}), 1),
              days_model_over_allocated |->
                  IF relevant_daily_sums = {} THEN NoField
                  ELSE Rat(Cardinality({i \in relevant_daily_sums :
                                          difference[i] > tolerance}), 1),
              days_model_approx_match |->
                  IF relevant_daily_sums = {} THEN NoField
                  ELSE Rat(Cardinality({i \in relevant_daily_sums :
                                          /\ difference[i] >= -tolerance
                                          /\ difference[i] <= tolerance}), 1),
              json_summary |->
                  IF relevant_daily_sums = {} THEN "raised" ELSE "written",
              num_exact_hourly_matches |-> num_exact_hourly_matches,
              percentage_exact_hourly_matches |->
                  Rat(num_exact_hourly_matches * 100, total_hourly_comparisons),
              num_exact_daily_matches |-> num_exact_daily_matches,
              percentage_exact_daily_matches |->
                  Rat(num_exact_daily_matches * 100, Len(scs)),
              total_cost_ground_truth |-> total_cost_ground_truth,
              total_cost_model |-> total_cost_model,
              cost_difference_percentage |->
                  CostDifferencePercentage(total_cost_model,
                                           total_cost_ground_truth),
              mae |->
                  IF both_valid = 0 THEN NaNValue
                  ELSE Rat(SumOver([i \in idxs |->
                                      SumOver([h \in Hours |->
                                                 IF h \in valid[i]
                                                 THEN Abs(scs[i].cand.entries[h].v
                                                          - scs[i].gt[h])
                                                 ELSE 0], Hours)], idxs),
                           both_valid)]

(* scripts/auto_generate_results.py *)

\* parse_model_output and generate_analysis_summary: the rows of all items
\* with a model value (valid_predictions) compared at once
GenerateAnalysisSummary(scs, pr, s) ==
    LET idxs == 1 .. Len(scs)
        valid == [i \in idxs |->
                    IF scs[i].cand.kind = "map" /\ DOMAIN scs[i].cand.entries # {}
                    THEN {h \in Hours : ModelValueValid(scs[i].cand, h)}
                    ELSE {}]
        rows_valid == SumOver([i \in idxs |-> Cardinality(valid[i])], idxs)
        model_cost ==
            SumOver([i \in idxs |->
                       CostOver(ModelValuesFilled(scs[i].cand), pr, valid[i])], idxs)
        ground_truth_cost ==
            SumOver([i \in idxs |-> CostOver(scs[i].gt, pr, valid[i])], idxs)
        cost_difference == model_cost - ground_truth_cost
    IN  IF idxs = {} THEN [kind |-> "raised"]
        ELSE IF rows_valid = 0 THEN [kind |-> "record", empty |-> TRUE]
        ELSE [kind |-> "record", empty |-> FALSE,
              mae |-> Rat(SumOver([i \in idxs |->
                                     SumOver([h \in Hours |->
                                                IF h \in valid[i]
                                                THEN Abs(scs[i].cand.entries[h].v
                                                         - scs[i].gt[h])
                                                ELSE 0], Hours)], idxs),
                          rows_valid),
              model_cost |-> model_cost,
              ground_truth_cost |-> ground_truth_cost,
              cost_difference |-> cost_difference,
              cost_percentage |->
                  IF ground_truth_cost # 0
                  THEN Rat(cost_difference * 100, ground_truth_cost)
                  ELSE Rat(0, 1),
              json_success_rate |->
                  Rat(Cardinality({i \in idxs :
                                      /\ scs[i].cand.kind = "map"
                                      /\ DOMAIN scs[i].cand.entries # {}})
                        * 100, Len(scs))]

(* The runs *)

GInit ==
    /\ impl = "none" /\ rows = << >> /\ target = 0 /\ pc = "idle"
    /\ sorted_rows = << >> /\ idx = 1 /\ remaining = 0 /\ allocated = Zeros
    /\ cumulative = 0 /\ result = NoResult
    /\ scale \in ScorerScales
    /\ gt = Zeros /\ cand = Absent /\ scorer = "none" /\ metrics = NoResult
    /\ price \in PriceVectors
    /\ scenarios \in UNION { [1 .. n -> ScenarioSet] : n \in 0 .. MaxScenarios }
    /\ aggregator = "none"
    /\ summary = NoResult

AggregateModelAnalyzer ==
    /\ aggregator = "none"
    /\ aggregator' = "model_analyzer"
    /\ summary' = ProcessGroundTruthComparison(scenarios, scale)
    /\ UNCHANGED <<avars, scale, svars, scenarios>>

AggregateAnalyzePerformance ==
    /\ aggregator = "none"
    /\ aggregator' = "analyze_performance"
    /\ summary' = RunCompleteAnalysis(scenarios, price, scale)
    /\ UNCHANGED <<avars, scale, svars, scenarios>>

AggregateComprehensive ==
    /\ aggregator = "none"
    /\ aggregator' = "comprehensive_final_analysis"
    /\ summary' = AnalyzeModelPerformance(scenarios, scale)
    /\ UNCHANGED <<avars, scale, svars, scenarios>>

AggregateClean ==
    /\ aggregator = "none"
    /\ aggregator' = "final_analysis_clean"
    /\ summary' = CleanAnalyzeModelPerformance(scenarios, scale)
    /\ UNCHANGED <<avars, scale, svars, scenarios>>

AggregateAnalyzeModelPerformance ==
    /\ aggregator = "none"
    /\ aggregator' = "analyze_model_performance"
    /\ summary' = CompareAll(scenarios, price, scale)
    /\ UNCHANGED <<avars, scale, svars, scenarios>>

AggregateAutoGenerate ==
    /\ aggregator = "none"
    /\ aggregator' = "auto_generate_results"
    /\ summary' = GenerateAnalysisSummary(scenarios, price, scale)
    /\ UNCHANGED <<avars, scale, svars, scenarios>>

GNext ==
    \/ AggregateModelAnalyzer
    \/ AggregateAnalyzePerformance
    \/ AggregateComprehensive
    \/ AggregateClean
    \/ AggregateAnalyzeModelPerformance
    \/ AggregateAutoGenerate

SpecAggregate == GInit /\ [][GNext]_vars

-----------------------------------------------------------------------------
(* C12 - C14, C20: the summary of a model's scenarios *)

Aggregated == aggregator # "none" /\ summary.kind = "record"

\* the number of scenarios tested
Tested == Len(scenarios)

\* scenario i is a hard failure: its candidate is absent or malformed
ScenarioHardFailure(i) == ~WellFormed(scenarios[i].cand)

\* the 24-hour flag that the aggregating script's own scoring gives scenario i
ScenarioExact(i) ==
    LET c == scenarios[i].cand
        g == scenarios[i].gt
    IN  IF aggregator = "model_analyzer"
        THEN ProcessScenario(c, g, scale).exact_24h_match
        ELSE IF aggregator = "analyze_model_performance"
        THEN CompareDay(c, g, scale).exact_daily_match
        ELSE CalculateOptimizationAccuracy(c, g, scale).perfect_match

\* the hourly match count that the script's own scoring gives scenario i
ScenarioMatches(i) ==
    LET c == scenarios[i].cand
        g == scenarios[i].gt
    IN  IF aggregator = "model_analyzer"
        THEN ProcessScenario(c, g, scale).hourly_matches
        ELSE IF aggregator = "analyze_model_performance"
        THEN CompareDay(c, g, scale).num_exact_hourly_matches
        ELSE CalculateAccuracyMetrics(ExtractLedAllocations(c), g, scale)
                 .exact_hourly_matches

HasExactMatchRate ==
    /\ aggregator \in {"model_analyzer", "comprehensive_final_analysis",
                       "analyze_model_performance"}
    /\ aggregator = "model_analyzer" => summary.ground_truth_analysis

\* the exact-match rate the script reports, in percent
ExactMatchRate ==
    IF aggregator = "model_analyzer" THEN summary.exact_24h_match_rate
    ELSE IF aggregator = "comprehensive_final_analysis" THEN PerfectRate(summary)
    ELSE summary.percentage_exact_daily_matches

HasHourlyMatchRate ==
    /\ aggregator \in {"model_analyzer", "analyze_performance",
                       "analyze_model_performance"}
    /\ aggregator = "model_analyzer" => summary.ground_truth_analysis

\* the mean hourly-match rate the script reports, in percent
HourlyMatchRate ==
    IF aggregator = "model_analyzer" THEN summary.mean_hourly_match_rate
    ELSE IF aggregator = "analyze_performance" THEN summary.exact_hourly_match_rate
    ELSE summary.percentage_exact_hourly_matches

\* C12: for any sequence of scenarios, the aggregated exact-match rate is the
\* number of scenarios whose 24-hour flag is true divided by the number of
\* scenarios tested, hard failures included in the denominator.
C12_ExactMatchRate ==
    (Aggregated /\ Tested > 0 /\ HasExactMatchRate) =>
        RatEq(ExactMatchRate,
              Rat(100 * Cardinality({i \in 1 .. Tested : ScenarioExact(i)}),
                  Tested))

\* C13: for any sequence of scenarios, the mean hourly-match rate is the sum
\* of the scenarios' hourly match counts divided by (scenarios tested x 24);
\* an unparseable scenario adds 0 matches and 24 hours.
C13_HourlyMatchRate ==
    (Aggregated /\ Tested > 0 /\ HasHourlyMatchRate) =>
        RatEq(HourlyMatchRate,
              Rat(100 * SumOver([i \in 1 .. Tested |-> ScenarioMatches(i)],
                                1 .. Tested),
                  Tested * HOURS))

\* the error value that model_analyzer's scoring gives scenario i
ScenarioError(i) ==
    ProcessScenario(scenarios[i].cand, scenarios[i].gt, scale)
        .daily_absolute_error.n

\* C14: for any sequence of scenarios, mean daily MAE is the mean of the
\* error values of exactly the scenarios that are not hard failures, and
\* success-weighted MAE is the mean over all scenarios tested with the 1e4
\* penalty for each hard failure: one value per scenario tested.
C14_MeanDailyMae ==
    (Aggregated /\ aggregator = "model_analyzer" /\ Tested > 0) =>
        LET all == 1 .. Tested
            ok == {i \in all : ~ScenarioHardFailure(i)}
            value == [i \in all |-> IF i \in ok THEN ScenarioError(i)
                                    ELSE PENALTY * Pow10(scale)]
        IN  /\ summary.ground_truth_analysis
            /\ summary.scenarios_with_valid_responses = Cardinality(ok)
            /\ IF ok = {} THEN summary.mean_daily_mae.t = "inf"
               ELSE RatEq(summary.mean_daily_mae, MeanOver(value, ok, 1))
            /\ RatEq(summary.mean_success_weighted_mae, MeanOver(value, all, 1))

\* C20: when zero scenarios were tested, every aggregating function returns
\* a summary (it does not raise).
C20_ZeroScenarios ==
    (aggregator # "none" /\ Tested = 0) => summary.kind # "raised"

-----------------------------------------------------------------------------
(* C15, C16 *)

\* C15: for every candidate input (well-formed, partial, with null or
\* non-numeric values, absent) the scoring function returns a metrics record
\* and never raises.
C15_NeverRaises ==
    scorer # "none" => metrics.kind = "record"

\* the cost difference in percent that C16 defines
ExpectedCostPercent(cost_candidate, cost_ground_truth) ==
    IF cost_ground_truth # 0
    THEN Rat((cost_candidate - cost_ground_truth) * 100, cost_ground_truth)
    ELSE IF cost_candidate = 0 THEN Rat(0, 1)
    ELSE Inf

AllWellFormed == \A i \in 1 .. Tested : WellFormed(scenarios[i].cand)

\* the costs of all scenarios together
TotalCostCandidates ==
    SumOver([i \in 1 .. Tested |->
               CostOver(ValuesOrZero(scenarios[i].cand), price, Hours)],
            1 .. Tested)
TotalCostGroundTruth ==
    SumOver([i \in 1 .. Tested |-> CostOver(scenarios[i].gt, price, Hours)],
            1 .. Tested)

\* C16: for well-formed candidates, the reported cost difference in percent
\* is (cost(candidate) - cost(ground truth)) / cost(ground truth) * 100 when
\* the ground-truth cost is nonzero, and otherwise 0 if the candidate cost
\* is 0 too and +infinity if it is not.
C16_CostDifferencePercent ==
    (Aggregated /\ Tested > 0 /\ AllWellFormed) =>
        /\ aggregator = "analyze_performance" =>
              \A i \in 1 .. Tested :
                  summary.detailed_results[i].cost_difference_percent =
                      ExpectedCostPercent(
                          CostOver(ValuesOrZero(scenarios[i].cand), price, Hours),
                          CostOver(scenarios[i].gt, price, Hours))
        /\ aggregator = "analyze_model_performance" =>
              summary.cost_difference_percentage =
                  ExpectedCostPercent(TotalCostCandidates, TotalCostGroundTruth)
        /\ aggregator = "auto_generate_results" =>
              summary.cost_percentage =
                  ExpectedCostPercent(TotalCostCandidates, TotalCostGroundTruth)

-----------------------------------------------------------------------------
(* The scripts on a date group as it comes from the input table: the group  *)
(* may lack an hour, its requirement may be missing, values may be negative *)

RawLengths == {HOURS - 1, HOURS}
RawCaps == {0, 300, -50}
RawTargets == {NaN, -50, 0, 500}

\* the date groups: the first Len rows of a day whose first hours carry the
\* documented ranks and a capacity of RawCaps
RawDays ==
    { [rows |-> SubSeq(MkRows(ExampleRanks, cp, DEFAULT_RANK, 0), 1, n),
       target |-> t] :
        n \in RawLengths, cp \in [Active -> RawCaps], t \in RawTargets }

\* calculate_ppfd_allocation takes every group of df.groupby('date') into its
\* loop; create_new_training_json's main loop comes first for run_optimization
RInit ==
    /\ impl \in {"float", "decimal"}
    /\ scale = 0
    /\ \E d \in RawDays : rows = d.rows /\ target = d.target
    /\ pc = IF impl = "float" THEN "start" ELSE "main"
    /\ sorted_rows = <<>>
    /\ idx = 1
    /\ remaining = 0
    /\ allocated = Zeros
    /\ cumulative = 0
    /\ result = NoResult
    /\ gt = Zeros /\ price = Zeros /\ cand = Absent
    /\ scorer = "none" /\ metrics = NoResult
    /\ scenarios = << >> /\ aggregator = "none" /\ summary = NoResult

\* create_new_training_json, lines 142-170: one date of the main loop, up to
\* the call of run_optimization.  A date without 24 rows is skipped; a NaN
\* requirement is replaced by 0.0 and a conversation pair with an error
\* status is appended; otherwise run_optimization starts.
MainDay ==
    /\ pc = "main" /\ impl = "decimal"
    /\ IF Len(rows) # HOURS
       THEN pc' = "skipped" /\ result' = result
       ELSE IF target = NaN
       THEN /\ pc' = "done"
            /\ result' = [kind |-> "nan_target", target_ppfd |-> 0]
       ELSE pc' = "start" /\ result' = result
    /\ UNCHANGED <<impl, scale, rows, target, sorted_rows, idx, remaining,
                   allocated, cumulative>>
    /\ UNCHANGED svars
    /\ UNCHANGED gvars

\* the hours of the group are 0 .. 23, each once
HoursComplete(rs) ==
    /\ Len(rs) = HOURS
    /\ {rs[i].hour : i \in 1 .. Len(rs)} = Hours

\* generate_training_outputs, lines 40-49, on a date of the table that
\* calculate_ppfd_allocation has written: skipped unless it has the 24 hours
GenerateOutputDay ==
    /\ pc = "done" /\ impl = "float"
    /\ pc' = IF HoursComplete(rows) THEN "emitted" ELSE "skipped"
    /\ UNCHANGED <<impl, scale, rows, target, sorted_rows, idx, remaining,
                   allocated, cumulative, result>>
    /\ UNCHANGED svars
    /\ UNCHANGED gvars

RNext ==
    \/ MainDay
    \/ FloatSort
    \/ FloatRow
    \/ DecimalSort
    \/ DecimalRow
    \/ DecimalFinish
    \/ GenerateOutputDay

SpecRaw == RInit /\ [][RNext]_vars

-----------------------------------------------------------------------------
(* C17 - C19: invalid date groups *)

\* the allocator has started on the group
AllocationStarted == pc \in {"loop", "finish", "done", "emitted"}

\* an allocation or a training record for the date has been written out
RecordEmitted ==
    \/ pc = "emitted"
    \/ pc = "done"
    \/ (impl = "float" /\ pc = "skipped")

IsNegative(x) == x # NaN /\ x < 0

NegativeInput ==
    \/ IsNegative(target)
    \/ \E i \in 1 .. Len(rows) : IsNegative(rows[i].cap)

\* C17: a date whose group does not hold exactly the 24 hours is rejected:
\* no allocation is computed and no record is emitted for it, in any script.
C17_WrongHourCountRejected ==
    ~HoursComplete(rows) => (~AllocationStarted /\ ~RecordEmitted)

\* C18: a day whose target is missing is rejected: the target is never
\* replaced by a substitute value, no allocation is computed and no record
\* is emitted.
C18_NaNTargetRejected ==
    target = NaN =>
        /\ ~AllocationStarted /\ ~RecordEmitted
        /\ result.kind = "none"

\* C19: given a negative target or a negative capacity the allocator does
\* not complete, no hour is ever allocated a negative value, and the
\* remaining target never exceeds the target given.
C19_NegativeInputFails ==
    (NegativeInput /\ target # NaN /\ pc \notin {"main", "start", "skipped"}) =>
        /\ pc \notin {"done", "emitted"}
        /\ \A h \in Hours : allocated[h] >= 0
        /\ remaining <= Max(target, 0)

-----------------------------------------------------------------------------
(* C21, C26: the comparisons process_ground_truth_comparison keeps *)

\* C21: analyze_single_model followed by process_ground_truth_comparison
\* scores the candidate of scenario i against the ground truth of scenario i
\* and records a hard failure for exactly the scenarios without a complete
\* allocation, whatever failed at earlier indexes.
C21_ScenarioAlignment ==
    (Aggregated /\ aggregator = "model_analyzer" /\ Tested > 0) =>
        \A i \in 1 .. Tested :
            summary.ground_truth_comparisons[i] =
                ProcessScenario(scenarios[i].cand, scenarios[i].gt, scale)

\* C26: process_ground_truth_comparison treats a scenario as a hard failure
\* iff its candidate is absent or not a complete 24-entry mapping: every
\* well-formed candidate is counted in scenarios_with_valid_responses and in
\* mean daily MAE, whatever the size of its error.
C26_FailureByCandidateOnly ==
    (Aggregated /\ aggregator = "model_analyzer" /\ Tested > 0) =>
        LET ok == {i \in 1 .. Tested : ~ScenarioHardFailure(i)}
        IN  /\ summary.scenarios_with_valid_responses = Cardinality(ok)
            /\ (summary.mean_daily_mae.t = "inf") <=> (ok = {})

-----------------------------------------------------------------------------
(* C22 - C25, C29, C30: the shape of the allocation *)

\* hour a comes before hour b in the (cost_rank, hour) order
OrderBefore(a, b) ==
    RankAt(a) < RankAt(b) \/ (RankAt(a) = RankAt(b) /\ a < b)

\* C22: once the allocator has finished a valid day, the allocation has the
\* greedy prefix shape over the (cost_rank, hour) order: there is an hour k
\* such that every hour before k has its full capacity, every hour after k
\* has 0, and k itself has between 0 and its capacity (so at most one hour
\* lies strictly between 0 and its capacity).
C22_GreedyPrefixShape ==
    Done =>
        \E k \in Hours :
            /\ 0 <= allocated[k] /\ allocated[k] <= Capacity[k]
            /\ \A h \in Hours :
                  /\ OrderBefore(h, k) => allocated[h] = Capacity[h]
                  /\ OrderBefore(k, h) => allocated[h] = 0

-----------------------------------------------------------------------------
(* The allocation of a priced day, then a feasible candidate with the same  *)
(* daily total scored against it by calculate_cost_metrics                  *)

PricedRanks == {1, 2}
PricedCaps == {0, 2}
PricedTargets == {1, 3, 5}
PricedPrices == {1, 2}

\* a lower rank never has a higher price
RankAgreesWithPrice(rs, pr) ==
    \A i, j \in 1 .. Len(rs) :
        FillRank(rs[i].rank) < FillRank(rs[j].rank)
            => pr[rs[i].hour] <= pr[rs[j].hour]

\* whole days (scale 0) whose first hours carry a rank, a capacity and a
\* price; the other hours have rank 99, capacity 0 and the highest price
PricedDays ==
    { d \in [rows : {MkRows(rk, cp, DEFAULT_RANK, 0) :
                        rk \in [Active -> PricedRanks],
                        cp \in [Active -> PricedCaps]},
             target : PricedTargets,
             price : {[h \in Hours |-> IF h \in Active THEN p[h] ELSE 2] :
                        p \in [Active -> PricedPrices]}] :
        RankAgreesWithPrice(d.rows, d.price) }

OInit ==
    /\ impl \in {"float", "decimal"}
    /\ scale = 0
    /\ \E d \in PricedDays :
          rows = d.rows /\ target = d.target /\ price = d.price
    /\ pc = "start"
    /\ sorted_rows = <<>>
    /\ idx = 1
    /\ remaining = 0
    /\ allocated = Zeros
    /\ cumulative = 0
    /\ result = NoResult
    /\ gt = Zeros /\ cand = Absent
    /\ scorer = "none" /\ metrics = NoResult
    /\ scenarios = << >> /\ aggregator = "none" /\ summary = NoResult

\* the allocations v with 0 <= v[h] <= capacity[h] and the daily total of a
MkFeasible(v) ==
    [kind |-> "map",
     entries |-> [h \in Hours |-> Num(IF h \in DOMAIN v THEN v[h] ELSE 0)]]

FeasibleCandidates(a, caps) ==
    { MkFeasible(v) : v \in
        { w \in [Active -> 0 .. 2] :
            /\ \A h \in Active : w[h] <= caps[h]
            /\ SumOver(w, Active) = SumOver(a, Hours) } }

\* analyze_single_result on a candidate for the finished day, the
\* allocator's output being the ground truth
ScoreAgainstAllocation ==
    /\ pc = "done" /\ scorer = "none"
    /\ gt' = allocated
    /\ cand' \in FeasibleCandidates(allocated,
                                    [h \in Hours |-> CapOf(rows[h + 1])])
    /\ scorer' = "analyze_performance"
    /\ metrics' = AnalyzeSingleResult(cand', gt', price, scale)
    /\ UNCHANGED <<avars, scale, price>>
    /\ UNCHANGED gvars

ONext ==
    \/ FloatSort
    \/ FloatRow
    \/ DecimalSort
    \/ DecimalRow
    \/ DecimalFinish
    \/ ScoreAgainstAllocation

SpecOptimal == OInit /\ [][ONext]_vars

\* hours of equal cost_rank have equal prices
TiesHaveEqualPrice ==
    \A a, b \in Hours : RankAt(a) = RankAt(b) => price[a] = price[b]

\* C23 as stated: for a valid day whose rank order agrees with price (a
\* lower rank never has a higher price), a candidate within the capacities
\* and with the ground truth's daily total never costs less than the
\* ground truth.
C23_NeverCheaperAsStated ==
    (Scored /\ RankAgreesWithPrice(rows, price)) =>
        /\ metrics.cost_difference.t = "num"
        /\ metrics.cost_difference.n >= 0

\* C23, amended: for a valid day on which a lower rank never has a higher
\* price and hours of equal rank have equal prices, a candidate within the
\* capacities and with the ground truth's daily total never costs less than
\* the ground truth: cost_difference >= 0.
C23_NeverCheaper ==
    (Scored /\ RankAgreesWithPrice(rows, price) /\ TiesHaveEqualPrice) =>
        /\ metrics.cost_difference.t = "num"
        /\ metrics.cost_difference.n >= 0

\* a candidate other than the ground truth, with the same daily total, has
\* been scored on such a day and costs strictly more
C23_Witness ==
    /\ Scored /\ RankAgreesWithPrice(rows, price) /\ TiesHaveEqualPrice
    /\ \E h \in Hours : CandValue(h) # gt[h]
    /\ metrics.cost_difference.n > 0

-----------------------------------------------------------------------------
(* C24: the remainder of 1e-9 or less *)

\* an hour has been processed and the loop goes on
AfterAnHour == pc = "loop" /\ idx > 1

\* C24: whenever the remaining target after an hour is 1e-9 or less (exactly
\* 1e-9 included) it is exactly zero, and the next hour in the order is
\* allocated nothing: no tail allocation of 1e-9 or less is produced.
C24_SmallRemainderIsZero ==
    [][(AfterAnHour /\ remaining <= Eps) =>
          (remaining = 0 /\ allocated' = allocated)]_vars

-----------------------------------------------------------------------------
(* C25: the hours without a rank *)

\* the place of an hour in the order the loop takes
Position(h) == CHOOSE i \in DOMAIN sorted_rows : sorted_rows[i].hour = h

\* C25: an hour whose cost_rank is missing is ordered exactly as an hour of
\* rank 99: after every hour of a rank below 99, and among the hours of rank
\* 99 (written out or missing) by ascending hour index.
C25_MissingRankIs99 ==
    pc # "start" =>
        \A m, h \in Hours :
            (m # h /\ RankAt(m) = DEFAULT_RANK) =>
                (Position(m) < Position(h)
                    <=> \/ RankAt(h) > DEFAULT_RANK
                        \/ RankAt(h) = DEFAULT_RANK /\ m < h)

-----------------------------------------------------------------------------
(* C27: the daily-total error *)

\* comprehensive_final_analysis computes no error of the daily totals (its
\* total_ppfd_error is the sum of the hourly absolute errors)
HasDailyTotalError == scorer # "comprehensive_final_analysis"

DailyTotalError ==
    IF scorer = "analyze_performance" THEN metrics.daily_ppfd_error
    ELSE IF scorer = "model_analyzer" THEN metrics.daily_absolute_error
    ELSE metrics.daily_error

\* C27: for every well-formed candidate the daily-total error is
\* |sum of candidate - sum of ground truth|, both sums over the 24 hours,
\* whatever the per-hour matches are.
C27_DailyTotalError ==
    (Scored /\ WellFormed(cand) /\ HasDailyTotalError) =>
        DailyTotalError =
            Rat(Abs(SumOver([h \in Hours |-> CandValue(h)], Hours)
                      - SumOver(gt, Hours)), 1)

\* a well-formed candidate that moves light from one hour to another: a
\* daily-total error of 0 with fewer than 24 hourly matches
C27_Witness ==
    /\ Scored /\ WellFormed(cand) /\ HasDailyTotalError
    /\ DailyTotalError = Rat(0, 1)
    /\ HourlyMatches < HOURS

-----------------------------------------------------------------------------
(* C28: the bias classes of the daily totals *)

\* the days with a row in daily_sums, and the difference of their totals
ComparedDays ==
    {i \in 1 .. Tested : DailySums(scenarios[i].cand, scenarios[i].gt).in_daily_sums}
SumDifference(i) ==
    DailySums(scenarios[i].cand, scenarios[i].gt).ppfd_sum_difference

\* C28: each compared day is in exactly one bias class by d = sum(candidate)
\* - sum(ground truth): under-allocated iff d < -1.0, over-allocated iff
\* d > 1.0, approximately matched iff -1.0 <= d <= 1.0; the three counts sum
\* to the number of compared days.
C28_BiasClasses ==
    (Aggregated /\ aggregator = "analyze_model_performance"
                /\ summary.kind = "record") =>
        /\ summary.days_model_under_allocated =
              Rat(Cardinality({i \in ComparedDays :
                                 SumDifference(i) < -Pow10(scale)}), 1)
        /\ summary.days_model_over_allocated =
              Rat(Cardinality({i \in ComparedDays :
                                 SumDifference(i) > Pow10(scale)}), 1)
        /\ summary.days_model_approx_match =
              Rat(Cardinality({i \in ComparedDays :
                                 /\ SumDifference(i) >= -Pow10(scale)
                                 /\ SumDifference(i) <= Pow10(scale)}), 1)
        /\ summary.days_model_under_allocated.n
             + summary.days_model_over_allocated.n
             + summary.days_model_approx_match.n = Cardinality(ComparedDays)

-----------------------------------------------------------------------------
(* C29: the countdown and the running total of the float loop *)

InFloatLoop == impl = "float" /\ pc \in {"loop", "done"}

\* what the countdown and the running total leave of the day's target
Shortfall == DailyTotalRequirement(target) - (cumulative + remaining)

\* C29 as stated: at every step of the loop over a valid day the countdown
\* is >= 0, never increases from one processed hour to the next, and
\* cumulative + countdown = the daily target; the cumulative value after the
\* last hour is the day's total allocation.
C29_LoopInvariantsAsStated ==
    /\ [](InFloatLoop =>
            /\ remaining >= 0
            /\ Shortfall = 0
            /\ (Done => cumulative = TotalAllocated))
    /\ [][InFloatLoop => remaining' <= remaining]_vars

\* C29, amended: the countdown is >= 0 and never increases, and
\* cumulative + countdown equals the daily target up to the remainder the
\* loop cuts: 0 <= target - (cumulative + countdown) < 1e-9; the cumulative
\* value after the last hour is the day's total allocation.
C29_LoopInvariants ==
    /\ [](InFloatLoop =>
            /\ remaining >= 0
            /\ Shortfall >= 0 /\ ~AtLeastEps(Shortfall)
            /\ (Done => cumulative = TotalAllocated))
    /\ [][InFloatLoop => remaining' <= remaining]_vars

\* the float loop has finished a day on which it cut a remainder under 1e-9
C29_Witness ==
    /\ impl = "float" /\ Done
    /\ cumulative > 0 /\ remaining = 0
    /\ Shortfall > 0

-----------------------------------------------------------------------------
(* C30: the two allocators on the same day.  calculate_ppfd_allocation      *)
(* writes the ground-truth column ppfd_allocated; run_optimization is then  *)
(* run on the same rows and target.                                         *)

BInit == Init /\ impl = "float"

\* the float loop's column is kept as the ground truth and run_optimization
\* is called on the day
RunOptimizationOnSameDay ==
    /\ pc = "done" /\ impl = "float"
    /\ gt' = allocated
    /\ impl' = "decimal"
    /\ pc' = "start"
    /\ sorted_rows' = <<>>
    /\ idx' = 1
    /\ remaining' = 0
    /\ allocated' = Zeros
    /\ cumulative' = 0
    /\ UNCHANGED <<scale, rows, target, result, price, cand, scorer, metrics>>
    /\ UNCHANGED gvars

BNext ==
    \/ FloatSort
    \/ FloatRow
    \/ RunOptimizationOnSameDay
    \/ DecimalSort
    \/ DecimalRow
    \/ DecimalFinish

SpecBoth == BInit /\ [][BNext]_vars

\* C30: for every valid day, the float loop of calculate_ppfd_allocation and
\* the Decimal run_optimization produce the same allocation for every hour.
C30_SameAllocation ==
    (impl = "decimal" /\ Done) => \A h \in Hours : allocated[h] = gt[h]

====
